---------------------------- MODULE Spec2Model ----------------------------
(***************************************************************************)
(* A model of the scientific calculator of src/src/main.rs: the REPL loop  *)
(* of main, and the pipeline calculator = tokenize -> rpn -> calc_value.   *)
(*                                                                         *)
(* Text is a sequence of one-character strings.  An f64 is a record        *)
(* [kind, sg, n, d]: kind "fin" is the signed rational sg*n/d (with a      *)
(* signed zero), "inf" a signed infinity, "nan" NaN, and "unk" a float     *)
(* the model does not follow (an irrational result, or a magnitude beyond  *)
(* MaxMagnitude).  Rounding of f64 arithmetic is not modelled: finite      *)
(* arithmetic is exact.                                                    *)
(***************************************************************************)
EXTENDS Integers, Sequences, FiniteSets, TLC

(***************************************************************************)
(* Characters                                                              *)
(***************************************************************************)
LowerLetters == <<"a","b","c","d","e","f","g","h","i","j","k","l","m",
                  "n","o","p","q","r","s","t","u","v","w","x","y","z">>

UpperLetters == <<"A","B","C","D","E","F","G","H","I","J","K","L","M",
                  "N","O","P","Q","R","S","T","U","V","W","X","Y","Z">>

DigitChars == <<"0","1","2","3","4","5","6","7","8","9">>

Range(s) == {s[x] : x \in DOMAIN s}

\* char::is_digit(10), and the regex class \d on ASCII text
is_digit(c) == c \in Range(DigitChars)

\* char::is_alphabetic on ASCII text
is_alphabetic(c) == c \in Range(LowerLetters) \cup Range(UpperLetters)

\* the regex class \w on ASCII text
is_word(c) == is_alphabetic(c) \/ is_digit(c) \/ c = "_"

\* char::is_whitespace, and the regex class \s, on ASCII text
is_whitespace(c) == c \in {" ", "\t"}

DigitValue(c) == (CHOOSE x \in DOMAIN DigitChars : DigitChars[x] = c) - 1

\* char::to_lowercase on ASCII text
to_lowercase_char(c) ==
  IF c \in Range(UpperLetters)
  THEN LowerLetters[CHOOSE x \in DOMAIN UpperLetters : UpperLetters[x] = c]
  ELSE c

\* str::to_lowercase
to_lowercase(s) == [x \in DOMAIN s |-> to_lowercase_char(s[x])]

\* s[from..] of Rust, with a 0-based byte offset
Suffix(s, from) == SubSeq(s, from + 1, Len(s))

\* whether text t occurs in s at (1-based) position p
OccursAt(s, p, t) ==
  /\ p >= 1
  /\ p + Len(t) - 1 <= Len(s)
  /\ SubSeq(s, p, p + Len(t) - 1) = t

RECURSIVE trim_start(_)
\* str::trim_start
trim_start(s) ==
  IF s # <<>> /\ is_whitespace(Head(s)) THEN trim_start(Tail(s)) ELSE s

RECURSIVE trim_end(_)
\* str::trim_end
trim_end(s) ==
  IF s # <<>> /\ is_whitespace(s[Len(s)])
  THEN trim_end(SubSeq(s, 1, Len(s) - 1))
  ELSE s

\* str::trim
trim(s) == trim_end(trim_start(s))

(***************************************************************************)
(* f64 values                                                              *)
(***************************************************************************)
\* Largest numerator or denominator the model follows exactly.
MaxMagnitude == 20000

RECURSIVE GCD(_, _)
GCD(a, b) == IF b = 0 THEN a ELSE GCD(b, a % b)

NaN == [kind |-> "nan", sg |-> 1, n |-> 0, d |-> 1]

Unk == [kind |-> "unk", sg |-> 1, n |-> 0, d |-> 1]

Inf(sg) == [kind |-> "inf", sg |-> sg, n |-> 0, d |-> 1]

\* The finite value sg * n / d in lowest terms; not followed past MaxMagnitude.
Fin(sg, n, d) ==
  LET g == GCD(n, d)
  IN IF n \div g > MaxMagnitude \/ d \div g > MaxMagnitude
     THEN Unk
     ELSE [kind |-> "fin", sg |-> sg, n |-> n \div g, d |-> d \div g]

Num(x) == IF x < 0 THEN Fin(-1, -x, 1) ELSE Fin(1, x, 1)

IsZero(x) == x.kind = "fin" /\ x.n = 0

IsInteger(x) == x.kind = "fin" /\ x.d = 1

\* x == y of f64: NaN equals nothing, and -0.0 == 0.0
F64Eq(x, y) ==
  /\ x.kind # "nan"
  /\ y.kind # "nan"
  /\ \/ IsZero(x) /\ IsZero(y)
     \/ x = y

Neg(x) == [x EXCEPT !.sg = -x.sg]

\* x + y of f64
F64Add(x, y) ==
  CASE x.kind = "nan" \/ y.kind = "nan" -> NaN
    [] x.kind = "unk" \/ y.kind = "unk" -> Unk
    [] x.kind = "inf" /\ y.kind = "inf" -> IF x.sg = y.sg THEN x ELSE NaN
    [] x.kind = "inf" -> x
    [] y.kind = "inf" -> y
    [] OTHER ->
         LET s == x.sg * x.n * y.d + y.sg * y.n * x.d
         IN IF s = 0
            THEN Fin(IF x.sg = -1 /\ y.sg = -1 THEN -1 ELSE 1, 0, 1)
            ELSE IF s < 0 THEN Fin(-1, -s, x.d * y.d)
            ELSE Fin(1, s, x.d * y.d)

\* x - y of f64
F64Sub(x, y) == F64Add(x, Neg(y))

\* x * y of f64
F64Mul(x, y) ==
  CASE x.kind = "nan" \/ y.kind = "nan" -> NaN
    [] x.kind = "unk" \/ y.kind = "unk" -> Unk
    [] x.kind = "inf" \/ y.kind = "inf" ->
         IF IsZero(x) \/ IsZero(y) THEN NaN ELSE Inf(x.sg * y.sg)
    [] OTHER -> Fin(x.sg * y.sg, x.n * y.n, x.d * y.d)

\* x / y of f64
F64Div(x, y) ==
  CASE x.kind = "nan" \/ y.kind = "nan" -> NaN
    [] x.kind = "unk" \/ y.kind = "unk" -> Unk
    [] x.kind = "inf" /\ y.kind = "inf" -> NaN
    [] x.kind = "inf" -> Inf(x.sg * y.sg)
    [] y.kind = "inf" -> Fin(x.sg * y.sg, 0, 1)
    [] IsZero(y) -> IF IsZero(x) THEN NaN ELSE Inf(x.sg * y.sg)
    [] OTHER -> Fin(x.sg * y.sg, x.n * y.d, x.d * y.n)

RECURSIVE PowAcc(_, _, _)
\* acc * x^e for a natural e, by repeated multiplication
PowAcc(acc, x, e) ==
  IF e = 0 \/ acc.kind = "unk" THEN acc ELSE PowAcc(F64Mul(acc, x), x, e - 1)

IsOddInteger(y) == IsInteger(y) /\ y.n % 2 = 1

\* |x| compared with 1, for a finite x: -1, 0 or 1
CmpOne(x) == IF x.n < x.d THEN -1 ELSE IF x.n = x.d THEN 0 ELSE 1

\* f64::powf
powf(x, y) ==
  CASE IsZero(y) -> Num(1)
    [] x = Num(1) -> Num(1)
    [] x.kind = "nan" \/ y.kind = "nan" -> NaN
    [] x.kind = "unk" \/ y.kind = "unk" -> Unk
    [] y.kind = "inf" ->
         IF x.kind = "inf" THEN (IF y.sg = 1 THEN Inf(1) ELSE Num(0))
         ELSE IF CmpOne(x) = 0 THEN Num(1)
         ELSE IF (CmpOne(x) = 1) = (y.sg = 1) THEN Inf(1) ELSE Num(0)
    [] x.kind = "inf" ->
         LET s == IF x.sg = -1 /\ IsOddInteger(y) THEN -1 ELSE 1
         IN IF y.sg = 1 THEN Inf(s) ELSE Fin(s, 0, 1)
    [] IsZero(x) ->
         LET s == IF x.sg = -1 /\ IsOddInteger(y) THEN -1 ELSE 1
         IN IF y.sg = 1 THEN Fin(s, 0, 1) ELSE Inf(s)
    [] IsInteger(y) ->
         LET p == PowAcc(Num(1), x, y.n)
         IN IF y.sg = 1 THEN p ELSE F64Div(Num(1), p)
    [] OTHER -> IF x.sg = -1 THEN NaN ELSE Unk

\* x % 180.0 == 90.0 of f64 (the remainder has the sign of x)
RemIs90(x) == x.kind = "fin" /\ x.sg = 1 /\ x.d = 1 /\ x.n % 180 = 90

\* f64::sin, f64::cos and f64::tan of x.to_radians(): exact at 0 only
F64Trig(func, x) ==
  CASE x.kind = "nan" \/ x.kind = "inf" -> NaN
    [] IsZero(x) -> IF func = "cos" THEN Num(1) ELSE x
    [] OTHER -> Unk

(***************************************************************************)
(* Text of an f64: str::parse::<f64> and f64::to_string                    *)
(***************************************************************************)
\* Fractional digits printed for a value with no finite decimal expansion.
FracDigits == 16

S_inf == <<"i","n","f">>

S_infinity == <<"i","n","f","i","n","i","t","y">>

S_nan == <<"n","a","n">>

S_NaN == <<"N","a","N">>

\* The text to_string gives a float the model does not follow.
S_unk == <<"#">>

RECURSIVE ParseDigits(_, _, _, _, _)
\* The digits of s from position p on, accumulated into n / d; frac is
\* whether the decimal point has been passed.  Any other character fails.
ParseDigits(s, p, n, d, frac) ==
  IF p > Len(s) THEN [ok |-> TRUE, v |-> Fin(1, n, d)]
  ELSE IF s[p] = "." THEN
    IF frac THEN [ok |-> FALSE, v |-> NaN] ELSE ParseDigits(s, p + 1, n, d, TRUE)
  ELSE IF ~is_digit(s[p]) THEN [ok |-> FALSE, v |-> NaN]
  ELSE IF n > MaxMagnitude * 1000 \/ d > MaxMagnitude * 1000
    THEN [ok |-> \A q \in p..Len(s) : is_digit(s[q]) \/ (s[q] = "." /\ ~frac
                                          /\ \A r \in (q+1)..Len(s) : s[r] # "."),
          v |-> Unk]
  ELSE ParseDigits(s, p + 1, n * 10 + DigitValue(s[p]),
                   IF frac THEN d * 10 ELSE d, frac)

\* str::parse::<f64>: an optional sign, then inf, infinity or nan in any
\* case, or a decimal numeral with at least one digit.  (No exponent
\* form: to_string never prints one.)
parse_f64(s) ==
  LET signed == s # <<>> /\ s[1] \in {"-", "+"}
      sg == IF s # <<>> /\ s[1] = "-" THEN -1 ELSE 1
      body == IF signed THEN Tail(s) ELSE s
      low == to_lowercase(body)
  IN IF low = S_inf \/ low = S_infinity THEN [ok |-> TRUE, v |-> Inf(sg)]
     ELSE IF low = S_nan THEN [ok |-> TRUE, v |-> NaN]
     ELSE IF body = S_unk THEN [ok |-> TRUE, v |-> Unk]
     ELSE IF ~\E p \in DOMAIN body : is_digit(body[p]) THEN [ok |-> FALSE, v |-> NaN]
     ELSE LET r == ParseDigits(body, 1, 0, 1, FALSE)
          IN IF r.ok /\ r.v.kind = "fin"
             THEN [ok |-> TRUE, v |-> [r.v EXCEPT !.sg = sg]]
             ELSE r

RECURSIVE IntText(_)
\* The decimal digits of a natural number.
IntText(x) ==
  IF x < 10 THEN <<DigitChars[x + 1]>>
  ELSE Append(IntText(x \div 10), DigitChars[(x % 10) + 1])

RECURSIVE FracText(_, _, _)
\* The decimal digits of r / d (r < d), at most left of them.
FracText(r, d, left) ==
  IF r = 0 \/ left = 0 THEN <<>>
  ELSE <<DigitChars[((r * 10) \div d) + 1]>> \o FracText((r * 10) % d, d, left - 1)

\* f64::to_string (Display): no exponent form, "-0" for negative zero.
to_string(x) ==
  CASE x.kind = "nan" -> S_NaN
    [] x.kind = "inf" -> IF x.sg = -1 THEN <<"-">> \o S_inf ELSE S_inf
    [] x.kind = "unk" -> S_unk
    [] OTHER ->
         LET whole == IntText(x.n \div x.d)
             frac == FracText(x.n % x.d, x.d, FracDigits)
         IN (IF x.sg = -1 THEN <<"-">> ELSE <<>>)
              \o whole
              \o (IF frac = <<>> THEN <<>> ELSE <<".">> \o frac)

(***************************************************************************)
(* tokenize                                                                *)
(***************************************************************************)
S_sin == <<"s","i","n">>

S_cos == <<"c","o","s">>

S_tg == <<"t","g">>

S_ctg == <<"c","t","g">>

\* The alternatives of the first group of token_pattern: the function
\* keywords and the keys of consts.
PatternWords(consts) == {S_sin, S_cos, S_tg, S_ctg} \cup DOMAIN consts

\* The single characters [()+\-*/^] of token_pattern.
PatternChars == {"(", ")", "+", "-", "*", "/", "^"}

\* \b at position p of haystack s (before s[p]; p = Len(s) + 1 is the end).
WordBoundary(s, p) ==
  ((p > 1 /\ is_word(s[p - 1])) # (p <= Len(s) /\ is_word(s[p])))

RECURSIVE DigitRunEnd(_, _)
\* The position after the run of digits of s that starts at p.
DigitRunEnd(s, p) ==
  IF p <= Len(s) /\ is_digit(s[p]) THEN DigitRunEnd(s, p + 1) ELSE p

\* \b(sin|cos|tg|ctg|<consts>)\b at p: the position after the match, or 0.
MatchWord(s, p, consts) ==
  LET ws == {w \in PatternWords(consts) :
               OccursAt(s, p, w) /\ WordBoundary(s, p + Len(w))}
  IN IF WordBoundary(s, p) /\ ws # {}
     THEN p + Len(CHOOSE w \in ws : TRUE)
     ELSE 0

\* \d*\.\d+ at p: the position after the match, or 0.
MatchDecimal(s, p) ==
  LET q == DigitRunEnd(s, p)
  IN IF q <= Len(s) /\ s[q] = "." /\ DigitRunEnd(s, q + 1) > q + 1
     THEN DigitRunEnd(s, q + 1)
     ELSE 0

\* \d+ at p: the position after the match, or 0.
MatchInteger(s, p) == IF DigitRunEnd(s, p) > p THEN DigitRunEnd(s, p) ELSE 0

\* [()+\-*/^] at p: the position after the match, or 0.
MatchChar(s, p) == IF s[p] \in PatternChars THEN p + 1 ELSE 0

\* token_pattern at p, its alternatives tried in order: the position after
\* the match, or 0.
MatchAt(s, p, consts) ==
  IF MatchWord(s, p, consts) # 0 THEN MatchWord(s, p, consts)
  ELSE IF MatchDecimal(s, p) # 0 THEN MatchDecimal(s, p)
  ELSE IF MatchInteger(s, p) # 0 THEN MatchInteger(s, p)
  ELSE MatchChar(s, p)

\* The positions of haystack s where token_regex.find looks for a match.
FindStarts(s) == 1..Len(s)

\* token_regex.find(s): the leftmost match, as [found, start, end] with
\* start the position of its first character and end the position after
\* its last one.
find(s, consts) ==
  LET starts == {p \in FindStarts(s) : MatchAt(s, p, consts) # 0}
  IN IF starts = {} THEN [found |-> FALSE, start |-> 0, end |-> 0]
     ELSE LET p == CHOOSE a \in starts : \A b \in starts : a <= b
          IN [found |-> TRUE, start |-> p, end |-> MatchAt(s, p, consts)]

\* The match arms of tokenize that give the token type of val.
token_type(val, consts) ==
  CASE val = <<"(">> -> "LPAREN"
    [] val = <<")">> -> "RPAREN"
    [] val = <<"*">> -> "MUL"
    [] val = <<"/">> -> "DIV"
    [] val = <<"+">> -> "ADD"
    [] val = <<"-">> -> "SUB"
    [] val = <<"^">> -> "POW"
    [] val = S_sin -> "SIN"
    [] val = S_cos -> "COS"
    [] val = S_tg -> "TAN"
    [] val = S_ctg -> "COT"
    [] val \in DOMAIN consts -> "CONST"
    [] \A x \in DOMAIN val : is_digit(val[x]) \/ val[x] = "." -> "NUM"
    [] OTHER -> "INVALID"

\* The Token pushed for the matched text val.
MakeToken(val, consts) ==
  IF token_type(val, consts) = "CONST"
  THEN [token |-> "NUM", value |-> consts[val]]
  ELSE [token |-> token_type(val, consts), value |-> val]

MsgInvalidFound == "Invalid character found"

MsgInvalidAt == "Invalid character at position"

RECURSIVE tokenize_from(_, _, _, _)
\* The while loop of tokenize from offset pos with the tokens found so
\* far: the tokens returned and the message printed (if any).
tokenize_from(expression, consts, pos, toks) ==
  IF pos >= Len(expression) THEN [tokens |-> toks, printed |-> <<>>]
  ELSE
    LET m == find(Suffix(expression, pos), consts)
        val == SubSeq(Suffix(expression, pos), m.start, m.end - 1)
    IN IF ~m.found THEN [tokens |-> <<>>, printed |-> <<MsgInvalidAt>>]
       ELSE IF token_type(val, consts) = "INVALID"
         THEN [tokens |-> <<>>, printed |-> <<MsgInvalidFound>>]
       ELSE tokenize_from(expression, consts, pos + (m.end - 1),
                          Append(toks, MakeToken(val, consts)))

\* tokenize(expression, consts)
tokenize(expression, consts) == tokenize_from(expression, consts, 0, <<>>)

(***************************************************************************)
(* rpn: the state of the conversion is [i, stack, trygo_stack, out,        *)
(* paren_count, res], res being "run" inside the loop, "ok" once Ok(out)   *)
(* is returned, or the message of the Err returned.                        *)
(***************************************************************************)
\* Mutant: * and / no tighter than + and -.
precedence_flat ==
  [LPAREN |-> -1, RPAREN |-> -1,
   SIN |-> 0, COS |-> 0, TAN |-> 0, CTG |-> 0,
   SUB |-> 1, ADD |-> 1,
   DIV |-> 1, MUL |-> 1,
   POW |-> 3]

precedence ==
  [LPAREN |-> -1, RPAREN |-> -1,
   SIN |-> 0, COS |-> 0, TAN |-> 0, CTG |-> 0,
   SUB |-> 1, ADD |-> 1,
   DIV |-> 2, MUL |-> 2,
   POW |-> 3]

operators == {<<"-">>, <<"+">>, <<"/">>, <<"*">>, <<"^">>}

trygo == {S_sin, S_cos, S_tg, S_ctg}

MsgExpectedNumber == "Invalid syntax: Expected number after '-'."

MsgMismatched == "Mismatched parentheses."

RpnStart ==
  [i |-> 0, stack |-> <<>>, trygo_stack |-> <<>>, out |-> <<>>,
   paren_count |-> 0, res |-> "run"]

\* tokens[i] of the code (i counts from 0)
TokenAt(tokens, i) == tokens[i + 1]

\* Mutant: a '-' directly after '(' is unary too.
IsUnaryMinusAfterParen(tokens, i) ==
  /\ TokenAt(tokens, i).value = <<"-">>
  /\ IF i = 0 THEN TRUE
     ELSE TokenAt(tokens, i - 1).value \in operators \cup {<<"(">>}

\* The condition of the first branch of the loop: a '-' that is unary.
IsUnaryMinus(tokens, i) ==
  /\ TokenAt(tokens, i).value = <<"-">>
  /\ IF i = 0 THEN TRUE ELSE TokenAt(tokens, i - 1).value \in operators

\* The condition under which the unary branch returns its error.
UnaryMinusFails(tokens, i) ==
  IF i + 1 >= Len(tokens) THEN TRUE ELSE TokenAt(tokens, i + 1).token # "NUM"

\* Which branch of the loop body handles tokens[i].
RpnBranch(tokens, i) ==
  CASE IsUnaryMinus(tokens, i) -> "unary"
    [] TokenAt(tokens, i).token = "NUM" -> "num"
    [] TokenAt(tokens, i).value \in operators -> "operator"
    [] TokenAt(tokens, i).value \in trygo -> "trygo"
    [] TokenAt(tokens, i).value = <<"(">> -> "lparen"
    [] TokenAt(tokens, i).value = <<")">> -> "rparen"
    [] OTHER -> "none"

\* Mutant: an operator of equal precedence stays on the stack.
PopsTopHigher(top, current_prec) ==
  /\ top.token \in DOMAIN precedence
  /\ precedence[top.token] > current_prec

\* Whether the operator loop pops the top of the stack before pushing an
\* operator of precedence current_prec.
PopsTop(top, current_prec) ==
  /\ top.token \in DOMAIN precedence
  /\ precedence[top.token] >= current_prec

RECURSIVE PopOperators(_, _, _)
\* The while loop of the operator branch: [stack, out] after it.
PopOperators(stack, out, current_prec) ==
  IF stack # <<>> /\ PopsTop(stack[Len(stack)], current_prec)
  THEN PopOperators(SubSeq(stack, 1, Len(stack) - 1),
                    Append(out, stack[Len(stack)].value), current_prec)
  ELSE [stack |-> stack, out |-> out]

RECURSIVE PopToParen(_, _)
\* The while loop of the ')' branch: pops to (and with) the nearest '('.
PopToParen(stack, out) ==
  IF stack = <<>> THEN [stack |-> stack, out |-> out]
  ELSE IF stack[Len(stack)].value = <<"(">>
    THEN [stack |-> SubSeq(stack, 1, Len(stack) - 1), out |-> out]
  ELSE PopToParen(SubSeq(stack, 1, Len(stack) - 1),
                  Append(out, stack[Len(stack)].value))

\* Mutant: a pending function is emitted at every ')'.
EmitsTrygoAtEveryParen(paren_count, trygo_stack) == trygo_stack # <<>>

\* Whether the ')' branch emits the pending function on top of trygo_stack.
EmitsTrygo(paren_count, trygo_stack) == paren_count = 0 /\ trygo_stack # <<>>

RECURSIVE DrainStack(_, _)
\* The final while loop: pops everything, emitting all but parentheses.
DrainStack(stack, out) ==
  IF stack = <<>> THEN out
  ELSE DrainStack(SubSeq(stack, 1, Len(stack) - 1),
                  IF stack[Len(stack)].value \notin {<<")">>, <<"(">>}
                  THEN Append(out, stack[Len(stack)].value)
                  ELSE out)

\* The unary branch when no number follows the '-'.
RpnUnaryError(tokens, s) == [s EXCEPT !.res = MsgExpectedNumber]

\* The unary branch: emits "-n" and advances two tokens.
RpnUnaryMinus(tokens, s) ==
  [s EXCEPT !.out = Append(s.out, <<"-">> \o TokenAt(tokens, s.i + 1).value),
            !.i = s.i + 2]

RpnNum(tokens, s) ==
  [s EXCEPT !.out = Append(s.out, TokenAt(tokens, s.i).value),
            !.i = s.i + 1]

RpnOperator(tokens, s) ==
  LET token == TokenAt(tokens, s.i)
      p == PopOperators(s.stack, s.out, precedence[token.token])
  IN [s EXCEPT !.stack = Append(p.stack, token),
               !.out = p.out,
               !.i = s.i + 1]

RpnTrygo(tokens, s) ==
  [s EXCEPT !.trygo_stack = Append(s.trygo_stack, TokenAt(tokens, s.i)),
            !.i = s.i + 1]

RpnLParen(tokens, s) ==
  [s EXCEPT !.stack = Append(s.stack, TokenAt(tokens, s.i)),
            !.paren_count = s.paren_count + 1,
            !.i = s.i + 1]

RpnRParen(tokens, s) ==
  LET count == s.paren_count - 1
      p == PopToParen(s.stack, s.out)
      emits == EmitsTrygo(count, s.trygo_stack)
  IN [s EXCEPT
        !.paren_count = count,
        !.stack = p.stack,
        !.out = IF emits
                THEN Append(p.out, s.trygo_stack[Len(s.trygo_stack)].value)
                ELSE p.out,
        !.trygo_stack = IF emits
                        THEN SubSeq(s.trygo_stack, 1, Len(s.trygo_stack) - 1)
                        ELSE s.trygo_stack,
        !.res = IF count < 0 THEN MsgMismatched ELSE "run",
        !.i = IF count < 0 THEN s.i ELSE s.i + 1]

\* A token no branch handles is passed over.
RpnSkip(tokens, s) == [s EXCEPT !.i = s.i + 1]

\* Mutant: the final pops without the check of paren_count.
RpnFinishUnchecked(tokens, s) ==
  [s EXCEPT !.out = DrainStack(s.stack, s.out),
            !.stack = <<>>,
            !.res = "ok"]

\* After the loop: the check of paren_count and the final pops.
RpnFinish(tokens, s) ==
  IF s.paren_count > 0
  THEN [s EXCEPT !.res = MsgMismatched]
  ELSE [s EXCEPT !.out = DrainStack(s.stack, s.out),
                 !.stack = <<>>,
                 !.res = "ok"]

\* One step of rpn: an iteration of the loop, or what follows the loop.
RpnStep(tokens, s) ==
  IF s.i >= Len(tokens) THEN RpnFinish(tokens, s)
  ELSE CASE RpnBranch(tokens, s.i) = "unary" ->
              IF UnaryMinusFails(tokens, s.i)
              THEN RpnUnaryError(tokens, s)
              ELSE RpnUnaryMinus(tokens, s)
         [] RpnBranch(tokens, s.i) = "num" -> RpnNum(tokens, s)
         [] RpnBranch(tokens, s.i) = "operator" -> RpnOperator(tokens, s)
         [] RpnBranch(tokens, s.i) = "trygo" -> RpnTrygo(tokens, s)
         [] RpnBranch(tokens, s.i) = "lparen" -> RpnLParen(tokens, s)
         [] RpnBranch(tokens, s.i) = "rparen" -> RpnRParen(tokens, s)
         [] OTHER -> RpnSkip(tokens, s)

RECURSIVE RpnRun(_, _)
RpnRun(tokens, s) ==
  IF s.res # "run" THEN s ELSE RpnRun(tokens, RpnStep(tokens, s))

\* rpn(tokens): the state in which it returns.
rpn(tokens) == RpnRun(tokens, RpnStart)

(***************************************************************************)
(* calc_value: the state of the evaluation is [k, stack, res, printed],    *)
(* k the number of entries consumed, res "run" inside the loop, "some"     *)
(* when Some(top of stack) is returned, "none" when None is, and "panic"   *)
(* if an unreachable!() arm were ever taken.                               *)
(***************************************************************************)
MsgDivisionByZero == "Division by zero"

MsgUndefinedTangent == "Undefined tangent value"

BinaryNames == {<<"*">>, <<"/">>, <<"+">>, <<"-">>, <<"^">>}

TrygoNames == {S_sin, S_cos, S_tg, S_ctg}

CalcStart == [k |-> 0, stack |-> <<>>, res |-> "run", printed |-> <<>>]

\* Whether calc_trygo takes its undefined-tangent branch.
TangentUndefined(x, func) == RemIs90(x) /\ func = "tan"

\* calc_trygo(x, func): the value returned
calc_trygo(x, func) ==
  IF TangentUndefined(x, func) THEN Num(0) ELSE F64Trig(func, x)

\* calc_trygo(x, func): what it prints
calc_trygo_printed(x, func) ==
  IF TangentUndefined(x, func) THEN <<MsgUndefinedTangent>> ELSE <<>>

\* Mutant: the divisor is not tested.
DivisorNeverZero(y) == FALSE

\* The "/" arm's test for a zero divisor.
DivisorIsZero(y) == F64Eq(y, Num(0))

\* The inner match of the binary arm, for the arms that return a value.
BinaryValue(token, x, y) ==
  CASE token = <<"*">> -> F64Mul(x, y)
    [] token = <<"/">> -> F64Div(x, y)
    [] token = <<"+">> -> F64Add(x, y)
    [] token = <<"-">> -> F64Sub(x, y)
    [] token = <<"^">> -> powf(x, y)

\* The arm for "*" | "/" | "+" | "-" | "^".
CalcBinary(token, s) ==
  IF Len(s.stack) < 2 THEN [s EXCEPT !.res = "none", !.stack = <<>>]
  ELSE
    LET y == s.stack[Len(s.stack)]
        x == s.stack[Len(s.stack) - 1]
        rest == SubSeq(s.stack, 1, Len(s.stack) - 2)
    IN IF token \notin BinaryNames THEN [s EXCEPT !.res = "panic"]
       ELSE IF token = <<"/">> /\ DivisorIsZero(y)
         THEN [s EXCEPT !.res = "none", !.stack = rest,
                        !.printed = Append(s.printed, MsgDivisionByZero)]
       ELSE [s EXCEPT !.stack = Append(rest, BinaryValue(token, x, y)),
                      !.k = s.k + 1]

\* The inner match of the trig arm.
TrygoValue(token, x) ==
  CASE token = S_sin -> calc_trygo(x, "sin")
    [] token = S_cos -> calc_trygo(x, "cos")
    [] token = S_tg -> calc_trygo(x, "tan")
    [] token = S_ctg ->
         IF ~F64Eq(calc_trygo(x, "tan"), Num(0))
         THEN powf(calc_trygo(x, "tan"), Num(-1))
         ELSE Num(0)

\* What the inner match of the trig arm prints.
TrygoPrinted(token, x) ==
  CASE token = S_sin -> calc_trygo_printed(x, "sin")
    [] token = S_cos -> calc_trygo_printed(x, "cos")
    [] token = S_tg -> calc_trygo_printed(x, "tan")
    [] token = S_ctg ->
         IF ~F64Eq(calc_trygo(x, "tan"), Num(0))
         THEN calc_trygo_printed(x, "tan") \o calc_trygo_printed(x, "tan")
         ELSE calc_trygo_printed(x, "tan")

\* The arm for "sin" | "cos" | "tg" | "ctg".
CalcTrygo(token, s) ==
  IF s.stack = <<>> THEN [s EXCEPT !.res = "none"]
  ELSE
    LET x == s.stack[Len(s.stack)]
        rest == SubSeq(s.stack, 1, Len(s.stack) - 1)
    IN IF token \notin TrygoNames THEN [s EXCEPT !.res = "panic"]
       ELSE [s EXCEPT !.stack = Append(rest, TrygoValue(token, x)),
                      !.printed = s.printed \o TrygoPrinted(token, x),
                      !.k = s.k + 1]

\* The last arm: the entry is parsed as a number.
CalcNumber(token, s) ==
  IF parse_f64(token).ok
  THEN [s EXCEPT !.stack = Append(s.stack, parse_f64(token).v), !.k = s.k + 1]
  ELSE [s EXCEPT !.res = "none"]

\* Mutant: Some(value) whenever a value is left.
CalcFinishAnyValue(s) ==
  IF Len(s.stack) >= 1 THEN [s EXCEPT !.res = "some"] ELSE [s EXCEPT !.res = "none"]

\* After the loop: Some(value) exactly when one value is left.
CalcFinish(s) ==
  IF Len(s.stack) = 1 THEN [s EXCEPT !.res = "some"] ELSE [s EXCEPT !.res = "none"]

\* Which arm of the outer match handles the entry token.
CalcArm(token) ==
  CASE to_lowercase(token) \in BinaryNames -> "binary"
    [] to_lowercase(token) \in TrygoNames -> "trygo"
    [] OTHER -> "number"

\* One step of calc_value on the postfix sequence out.
CalcStep(out, s) ==
  IF s.k >= Len(out) THEN CalcFinish(s)
  ELSE CASE CalcArm(out[s.k + 1]) = "binary" -> CalcBinary(out[s.k + 1], s)
         [] CalcArm(out[s.k + 1]) = "trygo" -> CalcTrygo(out[s.k + 1], s)
         [] OTHER -> CalcNumber(out[s.k + 1], s)

RECURSIVE CalcRun(_, _)
CalcRun(out, s) ==
  IF s.res # "run" THEN s ELSE CalcRun(out, CalcStep(out, s))

\* calc_value(rpn): the state in which it returns.
calc_value(out) == CalcRun(out, CalcStart)

\* An Option<f64>.
None == [some |-> FALSE, v |-> Num(0)]

Some(v) == [some |-> TRUE, v |-> v]

\* The Option that calc_value returns from state s.
CalcResult(s) == IF s.res = "some" THEN Some(s.stack[1]) ELSE None

\* calculator(expr, consts): the Option<f64> returned.
calculator(expr, consts) ==
  LET r == rpn(tokenize(expr, consts).tokens)
  IN IF r.res = "ok" THEN CalcResult(calc_value(r.out)) ELSE None

(***************************************************************************)
(* main: the lines it tells apart                                          *)
(***************************************************************************)
S_export == <<"e","x","p","o","r","t">>

S_help == <<"h","e","l","p">>

S_exit == <<"e","x","i","t">>

keywords == {S_export, S_sin, S_cos, S_tg, S_ctg, S_help}

RECURSIVE SkipSpaces(_, _)
\* The position after the run of whitespace of s that starts at p.
SkipSpaces(s, p) ==
  IF p <= Len(s) /\ is_whitespace(s[p]) THEN SkipSpaces(s, p + 1) ELSE p

RECURSIVE SkipWord(_, _)
\* The position after the run of word characters of s that starts at p.
SkipWord(s, p) ==
  IF p <= Len(s) /\ is_word(s[p]) THEN SkipWord(s, p + 1) ELSE p

\* assign_regex, ^export\s+\w+\s*=\s*.*$ : the position of the '=' it
\* matches in s, or 0 when s does not match.
AssignEquals(s) ==
  LET a == Len(S_export) + 1
      b == SkipSpaces(s, a)
      c == SkipWord(s, b)
      e == SkipSpaces(s, c)
  IN IF OccursAt(s, 1, S_export) /\ b > a /\ c > b /\ e <= Len(s) /\ s[e] = "="
     THEN e
     ELSE 0

assign_regex_is_match(s) == AssignEquals(s) # 0

\* line.splitn(2, '='): the text before and after the first '='.
splitn2(s) ==
  LET eqs == {p \in DOMAIN s : s[p] = "="}
      e == CHOOSE a \in eqs : \A b \in eqs : a <= b
  IN IF eqs = {} THEN <<s>>
     ELSE <<SubSeq(s, 1, e - 1), SubSeq(s, e + 1, Len(s))>>

RECURSIVE trim_start_matches(_, _)
\* str::trim_start_matches(prefix): every leading repetition removed.
trim_start_matches(s, prefix) ==
  IF OccursAt(s, 1, prefix)
  THEN trim_start_matches(SubSeq(s, Len(prefix) + 1, Len(s)), prefix)
  ELSE s

\* The var_name main takes from an assignment line.
VarNameOf(s) == trim(trim_start_matches(splitn2(s)[1], S_export))

\* Mutant: the reserved words are not refused.
NameAcceptedAnyLetters(name) == \A x \in DOMAIN name : is_alphabetic(name[x])

\* The test main makes on var_name before it evaluates the assignment.
NameAccepted(name) ==
  /\ \A x \in DOMAIN name : is_alphabetic(name[x])
  /\ name \notin keywords

(***************************************************************************)
(* The state machine                                                       *)
(***************************************************************************)
VARIABLES
  consts,        \* main: the constant table, name -> numeral text
  line,          \* main: the line read last
  var_name,      \* main: the name being assigned (<<>> outside an export)
  pc,            \* "read" | "tokenize" | "rpn" | "calc" | "return" | "exited"
  expr,          \* calculator: its argument
  tokens,        \* calculator: what tokenize returned
  i,             \* rpn: index of the token being read
  stack,         \* rpn: the operator stack
  trygo_stack,   \* rpn: the pending trig functions
  out,           \* rpn: the postfix output
  paren_count,   \* rpn: the paren depth
  rpn_res,       \* rpn: "run", "ok" or the error returned
  k,             \* calc_value: number of postfix entries consumed
  calc_stack,    \* calc_value: its value stack
  calc_res,      \* calc_value: "run", "some", "none" or "panic"
  result,        \* calculator: the Option<f64> it returned
  printed,       \* the messages printed while handling this line
  source         \* the expression tree expr was written from (<<>> if none)

vars == <<consts, line, var_name, pc, expr, tokens, i, stack, trygo_stack,
          out, paren_count, rpn_res, k, calc_stack, calc_res, result,
          printed, source>>

mainVars == <<consts, line, var_name, source>>

rpnVars == <<i, stack, trygo_stack, out, paren_count, rpn_res>>

calcVars == <<k, calc_stack, calc_res>>

RpnState ==
  [i |-> i, stack |-> stack, trygo_stack |-> trygo_stack, out |-> out,
   paren_count |-> paren_count, res |-> rpn_res]

SetRpn(s) ==
  /\ i' = s.i
  /\ stack' = s.stack
  /\ trygo_stack' = s.trygo_stack
  /\ out' = s.out
  /\ paren_count' = s.paren_count
  /\ rpn_res' = s.res

CalcState == [k |-> k, stack |-> calc_stack, res |-> calc_res, printed |-> <<>>]

SetCalc(s) ==
  /\ k' = s.k
  /\ calc_stack' = s.stack
  /\ calc_res' = s.res
  /\ printed' = printed \o s.printed

\* The locals of calculator while it is not running.
Idle ==
  /\ tokens = <<>>
  /\ i = 0
  /\ stack = <<>>
  /\ trygo_stack = <<>>
  /\ out = <<>>
  /\ paren_count = 0
  /\ rpn_res = "run"
  /\ k = 0
  /\ calc_stack = <<>>
  /\ calc_res = "run"
  /\ result = None
  /\ printed = <<>>

\* main calls calculator(e, consts), with name the name being assigned.
Call(l, name, e) ==
  /\ line' = l
  /\ var_name' = name
  /\ expr' = e
  /\ pc' = "tokenize"
  /\ tokens' = <<>>
  /\ SetRpn(RpnStart)
  /\ k' = 0
  /\ calc_stack' = <<>>
  /\ calc_res' = "run"
  /\ result' = None
  /\ printed' = <<>>
  /\ UNCHANGED <<consts, source>>

\* main handles a line without calling calculator.
NoCall(l, msg, next) ==
  /\ line' = l
  /\ printed' = msg
  /\ pc' = next
  /\ UNCHANGED <<consts, var_name, expr, tokens, rpnVars, calcVars, result,
                 source>>

MsgExiting == "Exiting..."

MsgHelp == "HELP_MSG"

MsgChooseName == "Please choose different variable name"

MsgVariable == "Variable"

MsgResult == "Result"

MsgInvalidOperation == "Error: Invalid operation in RPN."

\* ---- main: the loop body, for a line l read by rl.readline

Exit(l) ==
  /\ pc = "read"
  /\ trim(l) = S_exit
  /\ NoCall(l, <<MsgExiting>>, "exited")

Help(l) ==
  /\ pc = "read"
  /\ trim(l) # S_exit
  /\ l = S_help
  /\ NoCall(l, <<MsgHelp>>, "read")

ExportRejected(l) ==
  /\ pc = "read"
  /\ trim(l) # S_exit
  /\ l # S_help
  /\ assign_regex_is_match(l)
  /\ ~NameAccepted(VarNameOf(l))
  /\ NoCall(l, <<MsgChooseName>>, "read")

ExportCall(l) ==
  /\ pc = "read"
  /\ trim(l) # S_exit
  /\ l # S_help
  /\ assign_regex_is_match(l)
  /\ NameAccepted(VarNameOf(l))
  /\ Call(l, VarNameOf(l), trim(splitn2(l)[2]))

PlainCall(l) ==
  /\ pc = "read"
  /\ trim(l) # S_exit
  /\ l # S_help
  /\ ~assign_regex_is_match(l)
  /\ Call(l, <<>>, l)

\* ---- calculator

Tokenize ==
  /\ pc = "tokenize"
  /\ tokens' = tokenize(expr, consts).tokens
  /\ printed' = printed \o tokenize(expr, consts).printed
  /\ pc' = "rpn"
  /\ UNCHANGED <<mainVars, expr, rpnVars, calcVars, result>>

\* rpn is at the top of its loop with a token to read, in the given branch.
AtToken(branch) ==
  /\ pc = "rpn"
  /\ rpn_res = "run"
  /\ i < Len(tokens)
  /\ RpnBranch(tokens, i) = branch

RpnFrame == UNCHANGED <<mainVars, pc, expr, tokens, calcVars, result, printed>>

StepUnaryError ==
  /\ AtToken("unary")
  /\ UnaryMinusFails(tokens, i)
  /\ SetRpn(RpnUnaryError(tokens, RpnState))
  /\ RpnFrame

StepUnaryMinus ==
  /\ AtToken("unary")
  /\ ~UnaryMinusFails(tokens, i)
  /\ SetRpn(RpnUnaryMinus(tokens, RpnState))
  /\ RpnFrame

StepNum ==
  /\ AtToken("num")
  /\ SetRpn(RpnNum(tokens, RpnState))
  /\ RpnFrame

StepOperator ==
  /\ AtToken("operator")
  /\ SetRpn(RpnOperator(tokens, RpnState))
  /\ RpnFrame

StepTrygo ==
  /\ AtToken("trygo")
  /\ SetRpn(RpnTrygo(tokens, RpnState))
  /\ RpnFrame

StepLParen ==
  /\ AtToken("lparen")
  /\ SetRpn(RpnLParen(tokens, RpnState))
  /\ RpnFrame

StepRParen ==
  /\ AtToken("rparen")
  /\ SetRpn(RpnRParen(tokens, RpnState))
  /\ RpnFrame

StepRpnFinish ==
  /\ pc = "rpn"
  /\ rpn_res = "run"
  /\ i >= Len(tokens)
  /\ SetRpn(RpnFinish(tokens, RpnState))
  /\ RpnFrame

\* calculator's arm Ok(out): calc_value is called.
RpnOk ==
  /\ pc = "rpn"
  /\ rpn_res = "ok"
  /\ pc' = "calc"
  /\ UNCHANGED <<mainVars, expr, tokens, rpnVars, calcVars, result, printed>>

\* calculator's arm Err(e): the error is printed and None returned.
RpnErr ==
  /\ pc = "rpn"
  /\ rpn_res \notin {"run", "ok"}
  /\ printed' = Append(printed, rpn_res)
  /\ result' = None
  /\ pc' = "return"
  /\ UNCHANGED <<mainVars, expr, tokens, rpnVars, calcVars>>

\* calc_value is at the top of its loop with an entry for the given arm.
AtEntry(arm) ==
  /\ pc = "calc"
  /\ calc_res = "run"
  /\ k < Len(out)
  /\ CalcArm(out[k + 1]) = arm

CalcFrame == UNCHANGED <<mainVars, pc, expr, tokens, rpnVars, result>>

StepBinary ==
  /\ AtEntry("binary")
  /\ SetCalc(CalcBinary(out[k + 1], CalcState))
  /\ CalcFrame

StepTrygoValue ==
  /\ AtEntry("trygo")
  /\ SetCalc(CalcTrygo(out[k + 1], CalcState))
  /\ CalcFrame

StepNumber ==
  /\ AtEntry("number")
  /\ SetCalc(CalcNumber(out[k + 1], CalcState))
  /\ CalcFrame

StepCalcFinish ==
  /\ pc = "calc"
  /\ calc_res = "run"
  /\ k >= Len(out)
  /\ SetCalc(CalcFinish(CalcState))
  /\ CalcFrame

\* calculator's arm Some(result)
CalcSome ==
  /\ pc = "calc"
  /\ calc_res = "some"
  /\ result' = CalcResult(CalcState)
  /\ printed' = Append(printed, MsgResult)
  /\ pc' = "return"
  /\ UNCHANGED <<mainVars, expr, tokens, rpnVars, calcVars>>

\* calculator's arm None
CalcNone ==
  /\ pc = "calc"
  /\ calc_res = "none"
  /\ result' = None
  /\ printed' = Append(printed, MsgInvalidOperation)
  /\ pc' = "return"
  /\ UNCHANGED <<mainVars, expr, tokens, rpnVars, calcVars>>

\* ---- main: after calculator has returned

AssignSome ==
  /\ pc = "return"
  /\ var_name # <<>>
  /\ result.some
  /\ consts' = [c \in DOMAIN consts \cup {var_name} |->
                  IF c = var_name THEN to_string(result.v) ELSE consts[c]]
  /\ printed' = Append(printed, MsgVariable)
  /\ pc' = "read"
  /\ UNCHANGED <<line, var_name, expr, tokens, rpnVars, calcVars, result,
                 source>>

AssignNone ==
  /\ pc = "return"
  /\ var_name # <<>>
  /\ ~result.some
  /\ printed' = Append(printed, MsgInvalidOperation)
  /\ pc' = "read"
  /\ UNCHANGED <<consts, line, var_name, expr, tokens, rpnVars, calcVars,
                 result, source>>

ExpressionDone ==
  /\ pc = "return"
  /\ var_name = <<>>
  /\ pc' = "read"
  /\ UNCHANGED <<consts, line, var_name, expr, tokens, rpnVars, calcVars,
                 result, printed, source>>

\* The steps of one call of calculator.
NextCalculator ==
  \/ Tokenize
  \/ StepUnaryError
  \/ StepUnaryMinus
  \/ StepNum
  \/ StepOperator
  \/ StepTrygo
  \/ StepLParen
  \/ StepRParen
  \/ StepRpnFinish
  \/ RpnOk
  \/ RpnErr
  \/ StepBinary
  \/ StepTrygoValue
  \/ StepNumber
  \/ StepCalcFinish
  \/ CalcSome
  \/ CalcNone

(***************************************************************************)
(* Inputs: expression trees <<op, left, right>>.  A leaf is                *)
(* <<"lit", text, <<>>>>, a parenthesised group <<"par", e, <<>>>>, a      *)
(* function call <<name, e, <<>>>>, and a binary node <<op, l, r>>.        *)
(* Show writes a tree as text with exactly the parentheses its shape       *)
(* needs (operators of equal precedence group left to right), and          *)
(* Value is what the tree denotes.                                         *)
(***************************************************************************)
Leaf(text) == <<"lit", text, <<>>>>

BinaryOps == {"+", "-", "*", "/", "^"}

FunctionText(name) ==
  CASE name = "sin" -> S_sin
    [] name = "cos" -> S_cos
    [] name = "tg" -> S_tg
    [] name = "ctg" -> S_ctg

\* How tightly the top of a tree binds.
Binding(t) ==
  CASE t[1] \in {"+", "-"} -> 1
    [] t[1] \in {"*", "/"} -> 2
    [] t[1] = "^" -> 3
    [] OTHER -> 4

RECURSIVE Show(_, _)
\* The text of tree t, with sep on both sides of every binary operator.
Show(t, sep) ==
  CASE t[1] = "lit" -> t[2]
    [] t[1] = "par" -> <<"(">> \o Show(t[2], sep) \o <<")">>
    [] t[1] \in BinaryOps ->
         (IF Binding(t[2]) < Binding(t)
          THEN <<"(">> \o Show(t[2], sep) \o <<")">>
          ELSE Show(t[2], sep))
         \o sep \o <<t[1]>> \o sep \o
         (IF Binding(t[3]) <= Binding(t)
          THEN <<"(">> \o Show(t[3], sep) \o <<")">>
          ELSE Show(t[3], sep))
    [] OTHER -> FunctionText(t[1]) \o <<"(">> \o Show(t[2], sep) \o <<")">>

RECURSIVE Value(_)
\* The value tree t denotes (angles in degrees).
Value(t) ==
  CASE t[1] = "lit" -> parse_f64(t[2]).v
    [] t[1] = "par" -> Value(t[2])
    [] t[1] = "+" -> F64Add(Value(t[2]), Value(t[3]))
    [] t[1] = "-" -> F64Sub(Value(t[2]), Value(t[3]))
    [] t[1] = "*" -> F64Mul(Value(t[2]), Value(t[3]))
    [] t[1] = "/" -> F64Div(Value(t[2]), Value(t[3]))
    [] t[1] = "^" -> powf(Value(t[2]), Value(t[3]))
    [] OTHER -> TrygoValue(FunctionText(t[1]), Value(t[2]))

RECURSIVE DividesByZero(_)
\* Whether evaluating tree t divides by a value equal to zero.
DividesByZero(t) ==
  CASE t[1] = "lit" -> FALSE
    [] t[1] \in BinaryOps ->
         \/ DividesByZero(t[2])
         \/ DividesByZero(t[3])
         \/ t[1] = "/" /\ F64Eq(Value(t[3]), Num(0))
    [] OTHER -> DividesByZero(t[2])

RECURSIVE Uses(_, _)
\* Whether tree t has a node whose operator is in ops.
Uses(t, ops) ==
  \/ t[1] \in ops
  \/ t[1] # "lit" /\ Uses(t[2], ops)
  \/ t[1] \in BinaryOps /\ Uses(t[3], ops)

RECURSIVE Trees(_, _, _, _)
\* The trees with exactly n inner nodes over the given leaves, binary
\* operators and unary wrappers.
Trees(n, leaves, bins, wraps) ==
  IF n = 0 THEN {Leaf(x) : x \in leaves}
  ELSE {<<w, t, <<>>>> : w \in wraps, t \in Trees(n - 1, leaves, bins, wraps)}
       \cup UNION {{<<b, l, r>> : b \in bins,
                                  l \in Trees(a, leaves, bins, wraps),
                                  r \in Trees(n - 1 - a, leaves, bins, wraps)} :
                   a \in 0..(n - 1)}

\* Inner nodes of the arithmetic trees.
MaxNodes == 2

\* Inner nodes of the power trees.
MaxPowNodes == 2

\* Inner nodes of the trees with function calls.
MaxTrigNodes == 4

\* The arithmetic trees of up to max inner nodes.
ArithTrees(max) ==
  UNION {Trees(n, {<<"0">>, <<"2">>}, {"+", "-", "*", "/"}, {"par"}) :
         n \in 0..max}

\* The power trees of up to max inner nodes.
PowTrees(max) ==
  UNION {Trees(n, {<<"2">>, <<"3">>, <<".", "5">>}, {"^", "*", "+"}, {"par"}) :
         n \in 0..max}

\* The trees with function calls of up to max inner nodes.
TrigTrees(max) ==
  UNION {Trees(n, {<<"2">>}, {"+"}, {"par", "sin", "tg"}) : n \in 0..max}

(***************************************************************************)
(* Inputs: texts put together from pieces                                  *)
(***************************************************************************)
\* Pieces in a text.
MaxPieces == 4

RECURSIVE Texts(_, _)
\* The concatenations of exactly n of the given pieces.
Texts(n, pieces) ==
  IF n = 0 THEN {<<>>}
  ELSE {t \o p : t \in Texts(n - 1, pieces), p \in pieces}

SyntaxPieces ==
  {<<"2">>, <<"+">>, <<"-">>, <<"*">>, <<"/">>, <<"^">>, <<"(">>, <<")">>, S_sin}

\* The texts of up to max pieces.
TextsUpTo(max, pieces) == UNION {Texts(n, pieces) : n \in 0..max}

JunkPieces == {<<"2">>, <<"+">>, <<"$">>, <<" ">>, <<"x">>, <<".">>}

\* Texts that between them take every branch of calculator.
SeedTexts ==
  { <<"-","5"," ","+"," ","3">>,
    <<"-","5">>,
    <<"-">>,
    <<"2",")">>,
    <<"t","g","(","9","0",")">>,
    <<"c","t","g","(","2",")","/","c">>,
    <<"2","/","c">>,
    <<"2","$">>,
    <<"+">> }

\* The constant table of a single call of calculator.
SeedConsts == (<<"c">> :> <<"0">>)

(***************************************************************************)
(* Inputs: the lines typed at the prompt                                   *)
(***************************************************************************)
ExportLine(name, e) == S_export \o <<" ">> \o name \o <<" ", "=", " ">> \o e

\* Names typed after export: two that main accepts, three that it rejects.
TypedNames == {<<"c">>, <<"d">>, S_sin, S_export, <<"a", "1">>}

\* Expressions typed as the value of an export.
TypedValues ==
  { <<"3">>,
    <<"0", "-", "3">>,
    <<"2", "/", "0">>,
    <<"0", "^", "-", "1">>,
    <<"c">>,
    <<"1", ".", "5">> }

\* Lines typed that are no well-spaced export.
TypedLines ==
  { S_help,
    S_exit,
    <<" ">> \o S_exit \o <<" ">>,
    S_help \o <<" ">>,
    S_export \o <<" ", "c", "=", "2">>,
    S_export \o <<" ", "d", " ", "=">>,
    S_export \o <<" ", "c">>,
    <<"(", "c", ")">>,
    <<"c">>,
    <<"2", "*", "c">>,
    <<"2", "-", "c">>,
    <<"c", ".", "5">>,
    <<"d", "/", "c">>,
    <<"(", "3", ")">>,
    <<"s", "i", "n", "(", "c", ")">>,
    <<"-", "c">>,
    <<"-">>,
    <<"2", ")">> }

Lines == TypedLines \cup {ExportLine(n, e) : n \in TypedNames, e \in TypedValues}

(***************************************************************************)
(* Specifications                                                          *)
(***************************************************************************)
\* main before its first readline.
Init ==
  /\ consts = <<>>
  /\ line = <<>>
  /\ var_name = <<>>
  /\ pc = "read"
  /\ expr = <<>>
  /\ source = <<>>
  /\ Idle

Next ==
  \/ \E l \in Lines : Exit(l)
  \/ \E l \in Lines : Help(l)
  \/ \E l \in Lines : ExportRejected(l)
  \/ \E l \in Lines : ExportCall(l)
  \/ \E l \in Lines : PlainCall(l)
  \/ NextCalculator
  \/ AssignSome
  \/ AssignNone
  \/ ExpressionDone

\* The calculator run from its prompt.
Spec == Init /\ [][Next]_vars

\* calculator(text, SeedConsts) is entered.
Entered(text, tree) ==
  /\ consts = SeedConsts
  /\ line = <<>>
  /\ var_name = <<>>
  /\ pc = "tokenize"
  /\ expr = text
  /\ source = tree
  /\ Idle

InitSeeds == \E text \in SeedTexts : Entered(text, <<>>)

InitArith ==
  \/ InitSeeds
  \/ \E t \in ArithTrees(MaxNodes) : Entered(Show(t, <<>>), t)

InitPow ==
  \/ InitSeeds
  \/ \E t \in PowTrees(MaxPowNodes) : Entered(Show(t, <<" ">>), t)

InitTrig ==
  \/ InitSeeds
  \/ \E t \in TrigTrees(MaxTrigNodes) : Entered(Show(t, <<>>), t)

InitSyntax ==
  \/ InitSeeds
  \/ \E text \in TextsUpTo(MaxPieces, SyntaxPieces) : Entered(text, <<>>)

InitJunk ==
  \/ InitSeeds
  \/ \E text \in TextsUpTo(MaxPieces, JunkPieces) : Entered(text, <<>>)

\* One call of calculator on the text of an arithmetic tree.
SpecArith == InitArith /\ [][NextCalculator]_vars

\* One call of calculator on the text of a power tree.
SpecPow == InitPow /\ [][NextCalculator]_vars

\* One call of calculator on the text of a tree with function calls.
SpecTrig == InitTrig /\ [][NextCalculator]_vars

\* One call of calculator on a sequence of token texts.
SpecSyntax == InitSyntax /\ [][NextCalculator]_vars

\* One call of calculator on a text with characters that start no token.
SpecJunk == InitJunk /\ [][NextCalculator]_vars

(***************************************************************************)
(* Properties                                                              *)
(***************************************************************************)
L2 == Leaf(<<"2">>)

\* C1: for the text of every arithmetic tree (non-negative literals, the
\* operators + - * / and balanced parentheses, those its shape needs and
\* redundant ones) that does not divide by zero,
\* tokenize, rpn and calc_value return Some(v), v the value of the tree:
\* * and / bind tighter than + and -, equal precedence groups left to
\* right, a parenthesised group is evaluated first.
C1_ArithmeticValue ==
  (pc = "return" /\ source # <<>> /\ ~DividesByZero(source))
    => result = Some(Value(source))

\* (2+2)*2 has been evaluated to 8.
C1_Witness ==
  /\ pc = "return"
  /\ source = <<"*", <<"+", L2, L2>>, L2>>
  /\ expr = <<"(", "2", "+", "2", ")", "*", "2">>
  /\ result = Some(Num(8))

\* calc_value is about to apply "/" to a divisor equal to zero.
DividingByZero ==
  /\ pc = "calc"
  /\ calc_res = "run"
  /\ k < Len(out)
  /\ out[k + 1] = <<"/">>
  /\ Len(calc_stack) >= 2
  /\ F64Eq(calc_stack[Len(calc_stack)], Num(0))

\* C7: a "/" applied to a divisor equal to zero ends calc_value with None,
\* None is then what calculator returns, and the text of every tree that
\* divides by zero somewhere evaluates to None.
C7_DivisionByZeroIsNone ==
  [][/\ DividingByZero => calc_res' = "none"
     /\ (pc = "calc" /\ calc_res = "none") => (pc' = "return" /\ result' = None)
     /\ (pc' = "return" /\ source # <<>> /\ DividesByZero(source))
          => result' = None]_vars

\* 2/(2-2) has been evaluated: division by zero was reported, the
\* result is None.
C7_Witness ==
  /\ pc = "return"
  /\ source = <<"/", L2, <<"-", L2, L2>>>>
  /\ MsgDivisionByZero \in Range(printed)
  /\ result = None

\* The precedence of an operator entry of the stack, 0 for a parenthesis.
StatedPrecedence(value) ==
  CASE value = <<"^">> -> 3
    [] value \in {<<"*">>, <<"/">>} -> 2
    [] value \in {<<"+">>, <<"-">>} -> 1
    [] OTHER -> 0

RECURSIVE PoppedCount(_, _)
\* How many entries from the top of st have a precedence of at least prec,
\* counting down to the first '(' or the first lower operator.
PoppedCount(st, prec) ==
  IF st = <<>> THEN 0
  ELSE IF StatedPrecedence(st[Len(st)].value) >= prec
    THEN 1 + PoppedCount(SubSeq(st, 1, Len(st) - 1), prec)
  ELSE 0

\* The values of the top n entries of st, topmost first.
PoppedValues(st, n) == [j \in 1..n |-> st[Len(st) + 1 - j].value]

\* rpn is about to handle tokens[i] as a binary operator.
AtBinaryOperator ==
  /\ pc = "rpn"
  /\ rpn_res = "run"
  /\ i < Len(tokens)
  /\ tokens[i + 1].token \in {"ADD", "SUB", "MUL", "DIV", "POW"}
  /\ IF tokens[i + 1].token = "SUB"
     THEN (IF i = 0 THEN FALSE
           ELSE tokens[i].token \notin {"ADD", "SUB", "MUL", "DIV", "POW"})
     ELSE TRUE

\* C6: before pushing a binary operator rpn pops and emits every operator
\* on top of the stack whose precedence (^ = 3, * / = 2, + - = 1) is at
\* least the current operator's, stopping at a '('; so a ^ b ^ c becomes
\* the postfix a b ^ c ^, every power tree written with operators of equal
\* precedence grouping left to right evaluates to its value, and
\* 2 ^ 3 ^ 2 is 64.
C6_PowerLeftAssociative ==
  [][/\ AtBinaryOperator =>
          LET n == PoppedCount(stack, StatedPrecedence(tokens[i + 1].value))
          IN /\ out' = out \o PoppedValues(stack, n)
             /\ stack' = Append(SubSeq(stack, 1, Len(stack) - n), tokens[i + 1])
             /\ i' = i + 1
     /\ (pc' = "return" /\ source # <<>>) =>
          /\ (~DividesByZero(source)) => result' = Some(Value(source))
          /\ (/\ Len(tokens) = 5
              /\ tokens[2].token = "POW"
              /\ tokens[4].token = "POW"
              /\ tokens[1].token = "NUM"
              /\ tokens[3].token = "NUM"
              /\ tokens[5].token = "NUM") =>
               /\ out = <<tokens[1].value, tokens[3].value, <<"^">>,
                          tokens[5].value, <<"^">>>>
               /\ result' = Some(powf(powf(parse_f64(tokens[1].value).v,
                                           parse_f64(tokens[3].value).v),
                                      parse_f64(tokens[5].value).v))
          /\ expr = <<"2", " ", "^", " ", "3", " ", "^", " ", "2">> =>
               result' = Some(Num(64))]_vars

\* 2 ^ 3 ^ 2 has been evaluated through the postfix 2 3 ^ 2 ^ to 64.
C6_Witness ==
  /\ pc = "return"
  /\ expr = <<"2", " ", "^", " ", "3", " ", "^", " ", "2">>
  /\ out = <<<<"2">>, <<"3">>, <<"^">>, <<"2">>, <<"^">>>>
  /\ result = Some(Num(64))

FunctionNames == {<<"s","i","n">>, <<"c","o","s">>, <<"t","g">>, <<"c","t","g">>}

\* How many entries of the output are function names.
FunctionCount(o) == Cardinality({j \in 1..Len(o) : o[j] \in FunctionNames})

RECURSIVE GroupOperators(_)
\* The values above the nearest '(' of st, topmost first.
GroupOperators(st) ==
  IF st = <<>> THEN <<>>
  ELSE IF st[Len(st)].value = <<"(">> THEN <<>>
  ELSE <<st[Len(st)].value>> \o GroupOperators(SubSeq(st, 1, Len(st) - 1))

\* rpn is about to handle tokens[i], whose value is in the given set.
Reading(values) ==
  /\ pc = "rpn"
  /\ rpn_res = "run"
  /\ i < Len(tokens)
  /\ tokens[i + 1].value \in values

\* C10: a function token is pushed on trygo_stack and neither pushed on the
\* operator stack nor emitted when it is read; the output gains a function
\* only while a ')' that returns paren_count to zero is handled, right
\* after the operators of that group, and it is then exactly the function
\* pushed last; a ')' that leaves paren_count above zero emits none.
C10_TrigEmission ==
  [][/\ \A j \in 1..Len(stack') : stack'[j].value \notin FunctionNames
     /\ Reading(FunctionNames) =>
          /\ trygo_stack' = Append(trygo_stack, tokens[i + 1])
          /\ out' = out
          /\ stack' = stack
     /\ FunctionCount(out') > FunctionCount(out) =>
          /\ Reading({<<")">>})
          /\ paren_count = 1
          /\ paren_count' = 0
          /\ trygo_stack # <<>>
          /\ out' = out \o GroupOperators(stack)
                        \o <<trygo_stack[Len(trygo_stack)].value>>
          /\ trygo_stack' = SubSeq(trygo_stack, 1, Len(trygo_stack) - 1)
     /\ (Reading({<<")">>}) /\ paren_count = 1 /\ trygo_stack # <<>>) =>
          FunctionCount(out') = FunctionCount(out) + 1
     /\ (Reading({<<")">>}) /\ paren_count > 1) =>
          /\ FunctionCount(out') = FunctionCount(out)
          /\ trygo_stack' = trygo_stack
          /\ out' = out \o GroupOperators(stack)]_vars

\* sin(tg(2 + 2)) has been converted: the inner ')' emitted nothing, the
\* outer one emitted tg after the + of the group, and sin is still pending.
C10_Witness ==
  /\ pc = "rpn"
  /\ rpn_res = "ok"
  /\ expr = <<"s","i","n","(","t","g","(","2","+","2",")",")">>
  /\ out = <<<<"2">>, <<"2">>, <<"+">>, <<"t","g">>>>
  /\ Len(trygo_stack) = 1
  /\ trygo_stack[1].value = <<"s","i","n">>

OperatorTypes == {"ADD", "SUB", "MUL", "DIV", "POW"}

\* rpn is about to handle tokens[i], a '-'.
AtMinus ==
  /\ pc = "rpn"
  /\ rpn_res = "run"
  /\ i < Len(tokens)
  /\ tokens[i + 1].token = "SUB"

\* The '-' at tokens[i] is the first token or follows an operator token.
InUnaryPosition == IF i = 0 THEN TRUE ELSE tokens[i].token \in OperatorTypes

\* The token after tokens[i] exists and is a number.
NumberFollows ==
  IF i + 1 < Len(tokens) THEN tokens[i + 2].token = "NUM" ELSE FALSE

\* C5: a '-' at index 0 or directly after one of + - * / ^ is unary: with a
\* number n next, rpn appends the one entry "-n" to the output, leaves the
\* operator stack alone and advances two tokens; with no number next it
\* returns the expected-number error.  Any other '-' is the binary
\* operator: the operators of precedence 1 or more on top of the stack are
\* emitted, the '-' is pushed and rpn advances one token.  "-5 + 3"
\* evaluates to -2 and "-5" to -5.
C5_UnaryMinus ==
  [][/\ (AtMinus /\ InUnaryPosition /\ NumberFollows) =>
          /\ out' = Append(out, <<"-">> \o tokens[i + 2].value)
          /\ stack' = stack
          /\ i' = i + 2
          /\ rpn_res' = "run"
     /\ (AtMinus /\ InUnaryPosition /\ ~NumberFollows) =>
          rpn_res' = "Invalid syntax: Expected number after '-'."
     /\ (AtMinus /\ ~InUnaryPosition) =>
          LET n == PoppedCount(stack, 1)
          IN /\ out' = out \o PoppedValues(stack, n)
             /\ stack' = Append(SubSeq(stack, 1, Len(stack) - n), tokens[i + 1])
             /\ i' = i + 1
             /\ rpn_res' = "run"
     /\ (pc' = "return" /\ expr = <<"-", "5", " ", "+", " ", "3">>) =>
          result' = Some(Num(-2))
     /\ (pc' = "return" /\ expr = <<"-", "5">>) =>
          result' = Some(Num(-5))]_vars

\* "-5 + 3" has been evaluated through the postfix -5 3 + to -2.
C5_Witness ==
  /\ pc = "return"
  /\ expr = <<"-", "5", " ", "+", " ", "3">>
  /\ out = <<<<"-", "5">>, <<"3">>, <<"+">>>>
  /\ result = Some(Num(-2))

\* calc_value is about to handle an entry of the given set.
AtPostfixEntry(names) ==
  /\ pc = "calc"
  /\ calc_res = "run"
  /\ k < Len(out)
  /\ out[k + 1] \in names

\* C8: calc_value ends every postfix sequence that rpn produces with Some
\* or None: a binary operator that finds fewer than two values, or a
\* function that finds none, ends it with None, and Some(v) is returned
\* only when the whole sequence has been scanned and exactly one value, v,
\* is on the stack; anything else left at the end gives None.
C8_EvaluationTotal ==
  [][/\ calc_res' \in {"run", "some", "none"}
     /\ (AtPostfixEntry({<<"*">>, <<"/">>, <<"+">>, <<"-">>, <<"^">>})
         /\ Len(calc_stack) < 2) => calc_res' = "none"
     /\ (AtPostfixEntry(FunctionNames) /\ calc_stack = <<>>) =>
          calc_res' = "none"
     /\ (calc_res = "run" /\ calc_res' = "some") =>
          /\ k = Len(out)
          /\ Len(calc_stack) = 1
     /\ (pc = "calc" /\ calc_res = "run" /\ k >= Len(out)
         /\ Len(calc_stack) # 1) => calc_res' = "none"
     /\ (pc = "calc" /\ pc' = "return") =>
          result' = IF calc_res = "some" THEN Some(calc_stack[1]) ELSE None]_vars

\* A lone "+" has been evaluated: the operator found no values and the
\* result is None.
C8_Witness ==
  /\ pc = "return"
  /\ expr = <<"+">>
  /\ out = <<<<"+">>>>
  /\ calc_res = "none"
  /\ result = None

\* '(' minus ')' among the first n tokens of toks.
ParenBalance(toks, n) ==
  Cardinality({j \in 1..n : toks[j].token = "LPAREN"})
    - Cardinality({j \in 1..n : toks[j].token = "RPAREN"})

\* Some prefix of toks has more ')' than '(', or toks has more '(' than ')'.
Unbalanced(toks) ==
  \/ \E n \in 1..Len(toks) : ParenBalance(toks, n) < 0
  \/ ParenBalance(toks, Len(toks)) > 0

\* How many tokens precede the first ')' that has no '(' to close; all of
\* them if there is no such ')'.
BeforeFirstExcess(toks) ==
  IF \E n \in 1..Len(toks) : ParenBalance(toks, n) < 0
  THEN (CHOOSE n \in 1..Len(toks) :
          /\ ParenBalance(toks, n) < 0
          /\ \A m \in 1..(n - 1) : ParenBalance(toks, m) >= 0) - 1
  ELSE Len(toks)

\* toks[j] is a '-' in unary position with no number after it.
MinusWithoutNumber(toks, j) ==
  /\ toks[j].token = "SUB"
  /\ IF j = 1 THEN TRUE ELSE toks[j - 1].token \in OperatorTypes
  /\ IF j < Len(toks) THEN toks[j + 1].token # "NUM" ELSE TRUE

\* rpn has returned, with rpn_res telling how.
RpnReturned == pc = "rpn" /\ rpn_res # "run"

\* C3 as stated: whenever the parentheses of the tokens are unbalanced rpn
\* returns the mismatched-parentheses error and nothing else.
C3_AlwaysMismatched ==
  (RpnReturned /\ Unbalanced(tokens)) => rpn_res = "Mismatched parentheses."

\* C3, amended: on tokens with unbalanced parentheses rpn never returns Ok;
\* it returns the expected-number error when a unary '-' with no number
\* after it comes before the first ')' that has nothing to close (anywhere
\* in the tokens if there is no such ')'), and the mismatched-parentheses
\* error in every other case.
C3_UnbalancedIsError ==
  (RpnReturned /\ Unbalanced(tokens)) =>
    rpn_res = IF \E j \in 1..BeforeFirstExcess(tokens) :
                   MinusWithoutNumber(tokens, j)
              THEN "Invalid syntax: Expected number after '-'."
              ELSE "Mismatched parentheses."

\* "(2+2" has been rejected at the end of the scan for its open '('.
C3_Witness ==
  /\ pc = "return"
  /\ expr = <<"(", "2", "+", "2">>
  /\ Unbalanced(tokens)
  /\ rpn_res = "Mismatched parentheses."
  /\ paren_count = 1
  /\ result = None

\* Characters that start no token and belong to none: '$', and 'x', which
\* occurs in no function name and in no constant name of SeedConsts.
StrayCharacters == {"$", "x"}

\* The text holds a character that starts no token.
HasStrayCharacter(text) == \E p \in 1..Len(text) : text[p] \in StrayCharacters

\* C2: tokenize skips no character silently: on a text that holds a
\* character that starts no token, tokenize prints an invalid-character
\* message and returns no tokens, and calculator returns None.
C2_NoSilentSkip ==
  (pc # "tokenize" /\ HasStrayCharacter(expr)) =>
    /\ tokens = <<>>
    /\ \E m \in Range(printed) :
         m \in {"Invalid character at position", "Invalid character found"}
    /\ pc = "return" => result = None

\* Name c stands in text at position p as a whole word.
WordAt(text, p, c) ==
  /\ OccursAt(text, p, c)
  /\ IF p = 1 THEN TRUE ELSE ~is_word(text[p - 1])
  /\ IF p + Len(c) > Len(text) THEN TRUE ELSE ~is_word(text[p + Len(c)])

OccursAsWord(text, c) == \E p \in 1..Len(text) : WordAt(text, p, c)

RECURSIVE ReplaceFrom(_, _, _, _)
\* text from position p on, with every whole-word occurrence of c replaced
\* by v.
ReplaceFrom(text, p, c, v) ==
  IF p > Len(text) THEN <<>>
  ELSE IF WordAt(text, p, c)
    THEN v \o ReplaceFrom(text, p + Len(c), c, v)
  ELSE <<text[p]>> \o ReplaceFrom(text, p + 1, c, v)

ReplaceWord(text, c, v) == ReplaceFrom(text, 1, c, v)

\* C4: for every constant c of the table with stored text v, and every
\* expression in which c occurs as a whole word, calculator returns for
\* the expression what it returns for the expression with v written in
\* the place of c.
C4_SubstitutionRoundTrip ==
  pc = "return" =>
    \A c \in DOMAIN consts :
      OccursAsWord(expr, c) =>
        result = calculator(ReplaceWord(expr, c, consts[c]), consts)

ReservedWords ==
  { <<"e","x","p","o","r","t">>, <<"s","i","n">>, <<"c","o","s">>,
    <<"t","g">>, <<"c","t","g">>, <<"h","e","l","p">> }

Letters == {LowerLetters[x] : x \in DOMAIN LowerLetters}
             \cup {UpperLetters[x] : x \in DOMAIN UpperLetters}

\* The line is an export of name n: "export", spaces, n, spaces, '='.
ExportOf(l, n) ==
  /\ OccursAt(l, 1, <<"e","x","p","o","r","t">>)
  /\ \E a \in 7..Len(l) :
       /\ \A j \in 7..a : l[j] \in {" ", "\t"}
       /\ OccursAt(l, a + 1, n)
       /\ \E e \in (a + Len(n) + 1)..Len(l) :
            /\ l[e] = "="
            /\ \A j \in (a + Len(n) + 1)..(e - 1) : l[j] \in {" ", "\t"}

\* main is back from calculator with Some(v) for the value of an export of
\* an acceptable name.
ExportSucceeded ==
  /\ pc = "return"
  /\ var_name # <<>>
  /\ ExportOf(line, var_name)
  /\ \A j \in 1..Len(var_name) : var_name[j] \in Letters
  /\ var_name \notin ReservedWords
  /\ result.some

\* C9: the constant table changes only when main is back from the value of
\* an export line whose name is letters only and none of export, sin, cos,
\* tg, ctg, help, and the value is Some(v); then that one name is set to
\* the text of v and nothing else changes.  Nothing else changes the
\* table: not a plain expression, help, an export with a rejected name
\* (calculator is not even called) or with a value of None; no entry is
\* ever removed; and no step of an evaluation touches the table.
C9_TableChangedOnlyByExport ==
  [][/\ consts' # consts => ExportSucceeded
     /\ ExportSucceeded =>
          /\ DOMAIN consts' = DOMAIN consts \cup {var_name}
          /\ consts'[var_name] = to_string(result.v)
          /\ \A m \in DOMAIN consts : m # var_name => consts'[m] = consts[m]
     /\ DOMAIN consts \subseteq DOMAIN consts'
     /\ pc \in {"tokenize", "rpn", "calc"} => consts' = consts
     /\ (pc = "read" /\ ExportOf(line', var_name')
         /\ pc' = "tokenize") =>
          /\ \A j \in 1..Len(var_name') : var_name'[j] \in Letters
          /\ var_name' \notin ReservedWords]_vars

\* "export c = 0-3" has been taken: c is the one entry, with the text -3.
C9_Witness ==
  /\ pc = "read"
  /\ line = <<"e","x","p","o","r","t"," ","c"," ","="," ","0","-","3">>
  /\ result = Some(Num(-3))
  /\ DOMAIN consts = {<<"c">>}
  /\ consts[<<"c">>] = <<"-", "3">>

=============================================================================
